---- MODULE Spec2Model ----
(***************************************************************************)
(* django-mitre: the filter-state codec, the Filter-Entry view, the        *)
(* listing view, the detail view and the route composer, as state          *)
(* machines over one HTTP request (or one route registration) at a time.   *)
(***************************************************************************)
EXTENDS Integers, Sequences, FiniteSets, TLC

(***************************************************************************)
(* Bounds of the model.                                                    *)
(***************************************************************************)
\* longest free-text string inside a criteria value
MaxStrLen == 1
\* longest flat list inside a criteria value
MaxLen == 2
\* most records in the stored collection
MaxRecords == 3

(***************************************************************************)
(* Text.  A text is a sequence of one-character strings.                   *)
(***************************************************************************)
Digits == {"0", "1", "2", "3", "4", "5", "6", "7", "8", "9"}

\* the characters free-text strings are drawn from: a letter, and the
\* characters that JSON or a query string gives a meaning to
Chars == {"a", " ", "\"", "\\", "+", "%", "&", "="}

\* the texts ss[lo..hi] joined, halving the range
RECURSIVE ConcatRange(_, _, _)
ConcatRange(ss, lo, hi) ==
    IF lo > hi THEN <<>>
    ELSE IF lo = hi THEN ss[lo]
    ELSE LET mid == (lo + hi) \div 2
         IN  ConcatRange(ss, lo, mid) \o ConcatRange(ss, mid + 1, hi)

Concat(ss) == ConcatRange(ss, 1, Len(ss))

RECURSIVE JoinWith(_, _)
JoinWith(ss, sep) ==
    IF ss = <<>> THEN <<>>
    ELSE IF Len(ss) = 1 THEN Head(ss)
    ELSE Head(ss) \o sep \o JoinWith(Tail(ss), sep)

StartsWith(s, i, lit) ==
    /\ i + Len(lit) - 1 <= Len(s)
    /\ \A k \in 1..Len(lit) : s[i + k - 1] = lit[k]

(***************************************************************************)
(* JSON values: what json.loads returns and json.dumps takes.              *)
(*   t    : "null" | "bool" | "num" | "str" | "list" | "obj" | "pair"      *)
(*   s    : the literal's text (bool, num), the characters (str), the key  *)
(*          (pair)                                                         *)
(*   kids : the elements (list), the pairs (obj), the one value (pair)     *)
(***************************************************************************)
JNull == [t |-> "null", s |-> <<>>, kids |-> <<>>]
JBool(b) == [t |-> "bool", s |-> IF b THEN <<"t", "r", "u", "e">>
                                      ELSE <<"f", "a", "l", "s", "e">>,
             kids |-> <<>>]
JNum(digits) == [t |-> "num", s |-> digits, kids |-> <<>>]
JStr(chars) == [t |-> "str", s |-> chars, kids |-> <<>>]
JList(elems) == [t |-> "list", s |-> <<>>, kids |-> elems]
JPair(key, v) == [t |-> "pair", s |-> key, kids |-> <<v>>]
JObj(pairs) == [t |-> "obj", s |-> <<>>, kids |-> pairs]

\* Python truthiness of a decoded value: bool(q)
Truthy(v) ==
    CASE v.t = "null" -> FALSE
      [] v.t = "bool" -> v.s = <<"t", "r", "u", "e">>
      [] v.t = "num"  -> v.s # <<"0">>
      [] v.t = "str"  -> v.s # <<>>
      [] OTHER        -> v.kids # <<>>

(***************************************************************************)
(* json.dumps with the default separators (", " and ": ").                 *)
(***************************************************************************)
EscapeChar(c) ==
    IF c = "\"" THEN <<"\\", "\"">>
    ELSE IF c = "\\" THEN <<"\\", "\\">>
    ELSE <<c>>

DumpsStr(chars) ==
    <<"\"">> \o Concat([k \in 1..Len(chars) |-> EscapeChar(chars[k])]) \o <<"\"">>

RECURSIVE Dumps(_)
Dumps(v) ==
    CASE v.t = "null" -> <<"n", "u", "l", "l">>
      [] v.t = "bool" -> v.s
      [] v.t = "num"  -> v.s
      [] v.t = "str"  -> DumpsStr(v.s)
      [] v.t = "list" ->
           <<"[">> \o JoinWith([k \in 1..Len(v.kids) |-> Dumps(v.kids[k])],
                               <<",", " ">>) \o <<"]">>
      [] v.t = "obj"  ->
           <<"{">> \o JoinWith([k \in 1..Len(v.kids) |->
                                   DumpsStr(v.kids[k].s) \o <<":", " ">>
                                     \o Dumps(v.kids[k].kids[1])],
                               <<",", " ">>) \o <<"}">>

(***************************************************************************)
(* json.loads: a recursive-descent parser.  Each parser takes the text and *)
(* a position and returns [ok, v, i]: success, the value, the position     *)
(* after it.                                                               *)
(***************************************************************************)
ParseFail == [ok |-> FALSE, v |-> JNull, i |-> 0]
ParseOk(v, i) == [ok |-> TRUE, v |-> v, i |-> i]

RECURSIVE SkipWs(_, _)
SkipWs(s, i) == IF i <= Len(s) /\ s[i] = " " THEN SkipWs(s, i + 1) ELSE i

\* the characters of a string literal, from the position after the opening quote
RECURSIVE ParseChars(_, _, _)
ParseChars(s, i, acc) ==
    IF i > Len(s) THEN ParseFail
    ELSE IF s[i] = "\"" THEN ParseOk(JStr(acc), i + 1)
    ELSE IF s[i] = "\\" THEN
        IF i + 1 <= Len(s) /\ s[i + 1] \in {"\"", "\\"}
        THEN ParseChars(s, i + 2, Append(acc, s[i + 1]))
        ELSE ParseFail
    ELSE ParseChars(s, i + 1, Append(acc, s[i]))

RECURSIVE ParseDigits(_, _, _)
ParseDigits(s, i, acc) ==
    IF i <= Len(s) /\ s[i] \in Digits
    THEN ParseDigits(s, i + 1, Append(acc, s[i]))
    ELSE ParseOk(JNum(acc), i)

\* -?(0|[1-9][0-9]*): a leading 0 ends the number
ParseNumber(s, i) ==
    IF s[i] = "0" THEN ParseOk(JNum(<<"0">>), i + 1)
    ELSE ParseDigits(s, i, <<>>)

\* dict semantics: a repeated key keeps its first position and takes the last value
PutPair(pairs, p) ==
    IF \E k \in 1..Len(pairs) : pairs[k].s = p.s
    THEN [k \in 1..Len(pairs) |-> IF pairs[k].s = p.s THEN p ELSE pairs[k]]
    ELSE Append(pairs, p)

RECURSIVE ParseValue(_, _), ParseElems(_, _, _), ParsePairs(_, _, _)

ParseValue(s, i) ==
    IF i > Len(s) THEN ParseFail
    ELSE IF s[i] = "\"" THEN ParseChars(s, i + 1, <<>>)
    ELSE IF s[i] = "[" THEN
        LET j == SkipWs(s, i + 1)
        IN  IF j <= Len(s) /\ s[j] = "]" THEN ParseOk(JList(<<>>), j + 1)
            ELSE ParseElems(s, j, <<>>)
    ELSE IF s[i] = "{" THEN
        LET j == SkipWs(s, i + 1)
        IN  IF j <= Len(s) /\ s[j] = "}" THEN ParseOk(JObj(<<>>), j + 1)
            ELSE ParsePairs(s, j, <<>>)
    ELSE IF StartsWith(s, i, <<"n", "u", "l", "l">>) THEN ParseOk(JNull, i + 4)
    ELSE IF StartsWith(s, i, <<"t", "r", "u", "e">>) THEN ParseOk(JBool(TRUE), i + 4)
    ELSE IF StartsWith(s, i, <<"f", "a", "l", "s", "e">>) THEN ParseOk(JBool(FALSE), i + 5)
    ELSE IF s[i] \in Digits THEN ParseNumber(s, i)
    ELSE ParseFail

\* the elements of an array, from the position of an element
ParseElems(s, i, acc) ==
    LET r == ParseValue(s, i)
    IN  IF ~r.ok THEN ParseFail
        ELSE LET j == SkipWs(s, r.i)
             IN  IF j > Len(s) THEN ParseFail
                 ELSE IF s[j] = "]" THEN ParseOk(JList(Append(acc, r.v)), j + 1)
                 ELSE IF s[j] = "," THEN ParseElems(s, SkipWs(s, j + 1), Append(acc, r.v))
                 ELSE ParseFail

\* the pairs of an object, from the position of a key
ParsePairs(s, i, acc) ==
    IF i > Len(s) \/ s[i] # "\"" THEN ParseFail
    ELSE LET k == ParseChars(s, i + 1, <<>>)
         IN  IF ~k.ok THEN ParseFail
             ELSE LET c == SkipWs(s, k.i)
                  IN  IF c > Len(s) \/ s[c] # ":" THEN ParseFail
                      ELSE LET r == ParseValue(s, SkipWs(s, c + 1))
                           IN  IF ~r.ok THEN ParseFail
                               ELSE LET j == SkipWs(s, r.i)
                                        acc2 == PutPair(acc, JPair(k.v.s, r.v))
                                    IN  IF j > Len(s) THEN ParseFail
                                        ELSE IF s[j] = "}" THEN ParseOk(JObj(acc2), j + 1)
                                        ELSE IF s[j] = ","
                                             THEN ParsePairs(s, SkipWs(s, j + 1), acc2)
                                        ELSE ParseFail

\* json.loads(text): one value, surrounded by optional whitespace, and nothing else
Loads(text) ==
    LET r == ParseValue(text, SkipWs(text, 1))
    IN  IF r.ok /\ SkipWs(text, r.i) = Len(text) + 1 THEN r ELSE ParseFail

(***************************************************************************)
(* urllib.parse.urlencode (quote_plus) and the query-string parsing of the *)
(* request (unquote_plus).                                                 *)
(***************************************************************************)
Reserved == {"\"", "\\", "+", "%", "&", "=", "[", "]", "{", "}", ",", ":"}

PercentCode(c) ==
    CASE c = "\"" -> <<"%", "2", "2">>
      [] c = "\\" -> <<"%", "5", "C">>
      [] c = "+"  -> <<"%", "2", "B">>
      [] c = "%"  -> <<"%", "2", "5">>
      [] c = "&"  -> <<"%", "2", "6">>
      [] c = "="  -> <<"%", "3", "D">>
      [] c = "["  -> <<"%", "5", "B">>
      [] c = "]"  -> <<"%", "5", "D">>
      [] c = "{"  -> <<"%", "7", "B">>
      [] c = "}"  -> <<"%", "7", "D">>
      [] c = ","  -> <<"%", "2", "C">>
      [] c = ":"  -> <<"%", "3", "A">>

QuoteChar(c) ==
    IF c = " " THEN <<"+">>
    ELSE IF c \in Reserved THEN PercentCode(c)
    ELSE <<c>>

QuotePlus(text) == Concat([k \in 1..Len(text) |-> QuoteChar(text[k])])

IsEscape(text, k) ==
    /\ k + 2 <= Len(text)
    /\ text[k] = "%"
    /\ \E c \in Reserved : PercentCode(c) = SubSeq(text, k, k + 2)

\* "+" is a space and %XX the character it codes; a "%" that starts no code
\* stays as it is.  The two characters after a "%" that starts a code are
\* hexadecimal digits, so no code starts inside another.
UnquotePlus(text) ==
    Concat([k \in 1..Len(text) |->
        IF IsEscape(text, k)
        THEN <<CHOOSE c \in Reserved : PercentCode(c) = SubSeq(text, k, k + 2)>>
        ELSE IF (k > 1 /\ IsEscape(text, k - 1)) \/ (k > 2 /\ IsEscape(text, k - 2))
        THEN <<>>
        ELSE IF text[k] = "+" THEN <<" ">>
        ELSE <<text[k]>>])

\* urlencode({"q": value})
UrlEncodeQ(value) == <<"q", "=">> \o QuotePlus(value)

\* the text split at every sep
Split(text, sep) ==
    LET cuts == {k \in 1..Len(text) : text[k] = sep} \cup {0, Len(text) + 1}
        starts == cuts \ {Len(text) + 1}
        NextCut(b) == CHOOSE c \in cuts : c > b /\ \A d \in cuts : d > b => c <= d
        Nth(n) == CHOOSE b \in starts : Cardinality({d \in starts : d < b}) = n - 1
    IN  [n \in 1..Cardinality(starts) |-> SubSeq(text, Nth(n) + 1, NextCut(Nth(n)) - 1)]

\* one name=value field of a query string: [name, value], both unquoted
Field(part) ==
    LET eqs == {k \in 1..Len(part) : part[k] = "="}
    IN  IF eqs = {} THEN [name |-> UnquotePlus(part), value |-> <<>>]
        ELSE LET e == CHOOSE k \in eqs : \A m \in eqs : k <= m
             IN  [name |-> UnquotePlus(SubSeq(part, 1, e - 1)),
                  value |-> UnquotePlus(SubSeq(part, e + 1, Len(part)))]

\* request.GET.get(name): [present, value], the last value given for the name
QueryGet(query, name) ==
    LET parts == Split(query, "&")
        fields == [k \in 1..Len(parts) |-> Field(parts[k])]
        hits == {k \in 1..Len(parts) : parts[k] # <<>> /\ fields[k].name = name}
    IN  IF hits = {} THEN [present |-> FALSE, value |-> <<>>]
        ELSE [present |-> TRUE,
              value |-> fields[CHOOSE k \in hits : \A m \in hits : m <= k].value]

(***************************************************************************)
(* Words of the program, as texts.                                         *)
(***************************************************************************)
W_q == <<"q">>
W_order == <<"o", "r", "d", "e", "r">>
W_mitre_id == <<"m", "i", "t", "r", "e", "_", "i", "d">>
W_name == <<"n", "a", "m", "e">>
W_short_description == <<"s", "h", "o", "r", "t", "_", "d", "e", "s", "c", "r", "i", "p", "t", "i", "o", "n">>
W_collection == <<"c", "o", "l", "l", "e", "c", "t", "i", "o", "n">>
W_bogus == <<"b", "o", "g", "u", "s">>
W_and == <<"a", "n", "d">>
W_lookup == <<"l", "o", "o", "k", "u", "p">>
W_icontains == <<"i", "c", "o", "n", "t", "a", "i", "n", "s">>
W_value == <<"v", "a", "l", "u", "e">>

(***************************************************************************)
(* The filter criteria values of the model: every scalar, the flat lists   *)
(* and objects over a few elements, and query data of the shape the        *)
(* filtering backend takes: ["and", [[field, {"lookup": .., "value": ..}]]]*)
(***************************************************************************)
Strings == UNION {[1..n -> Chars] : n \in 0..MaxStrLen}

Scalars ==
    {JNull, JBool(TRUE), JBool(FALSE), JNum(<<"0">>), JNum(<<"7">>), JNum(<<"1", "0">>)}
        \cup {JStr(w) : w \in Strings}

Elems == {JNull, JNum(<<"0">>), JStr(<<"a">>), JList(<<>>), JObj(<<>>)}

FlatLists == {JList(e) : e \in UNION {[1..n -> Elems] : n \in 0..MaxLen}}

FlatObjs == {JObj(<<>>)} \cup {JObj(<<JPair(<<"a">>, e)>>) : e \in Elems}

QueryData ==
    {JList(<<JStr(W_and),
             JList(<<JList(<<JStr(f),
                             JObj(<<JPair(W_lookup, JStr(W_icontains)),
                                    JPair(W_value, JStr(w))>>)>>)>>)>>) :
        f \in {W_name, W_mitre_id}, w \in Strings}

Criteria == Scalars \cup FlatLists \cup FlatObjs \cup QueryData

\* texts that are no JSON document
Malformed ==
    {<<"{">>, <<"[", "1", ",", "]">>, <<"a">>, <<"0", "1">>, <<"\"", "a">>,
     <<"[", "]", "]">>, <<" ">>}

\* request data for one parameter: absent, or present with a text
Absent == [present |-> FALSE, value |-> <<>>]
Given(text) == [present |-> TRUE, value |-> text]

(***************************************************************************)
(* FilterForm: one optional JSON field, q.  Cleaning gives [valid, q];     *)
(* an absent or empty q cleans to None (JNull), a text that is no JSON     *)
(* document is a validation error.                                         *)
(***************************************************************************)
FilterFormClean(d) ==
    IF ~d.present \/ d.value = <<>> THEN [valid |-> TRUE, q |-> JNull]
    ELSE LET r == Loads(d.value)
         IN  IF r.ok THEN [valid |-> TRUE, q |-> r.v]
             ELSE [valid |-> FALSE, q |-> JNull]

(***************************************************************************)
(* The stored collection.  A record has a primary key, its MITRE           *)
(* identifier, its display name and the two visibility flags.              *)
(***************************************************************************)
MitreIds == {"T1566", "T1059"}

NameOf(id) == IF id = "T1566" THEN "Phishing" ELSE "Command and Scripting Interpreter"

Kinds(ids) == [mitre_id : ids, deprecated : BOOLEAN, revoked : BOOLEAN]

KindRank(k) ==
    (IF k.mitre_id = "T1566" THEN 0 ELSE 4) + (IF k.deprecated THEN 2 ELSE 0)
        + (IF k.revoked THEN 1 ELSE 0)

\* the collections of at most MaxRecords records over the identifiers ids;
\* primary keys are 1..n, and records are numbered in the order of their kind
\* (two collections that differ only in the numbering are the same collection)
Stores(ids) ==
    {{[pk |-> i, mitre_id |-> f[i].mitre_id, name |-> NameOf(f[i].mitre_id),
       deprecated |-> f[i].deprecated, revoked |-> f[i].revoked] : i \in DOMAIN f} :
        f \in {g \in UNION {[1..n -> Kinds(ids)] : n \in 0..MaxRecords} :
                 \A i \in DOMAIN g : i > 1 => KindRank(g[i - 1]) <= KindRank(g[i])}}

(***************************************************************************)
(* State.                                                                  *)
(***************************************************************************)
VARIABLES
    store,        \* the stored collection of the entity being browsed
    view,         \* the view handling the request: "none", "filter", "index", "detail"
    pc,           \* where the handler is: "idle", a step of the view, "done"
    response,     \* the response of the request, once it is made
    method,       \* Filter-Entry view: the request method
    data,         \* Filter-Entry view: the submitted q (request.GET or request.POST)
    cleaned,      \* Filter-Entry view: the form after validation, [valid, q]
    GET,          \* listing view: request.GET, the parsed query string
    followed,     \* listing view: the request follows a Filter-Entry redirect
    filters,      \* listing view: what get_filters() returned
    ordering,     \* listing view: what get_ordering() returned
    object_list,  \* listing view: what get_queryset() returned
    constructed,  \* listing view: the steps that constructed a filterset object
    is_filtered,  \* listing view: context["is_filtered"]
    headers,      \* listing view: what ordered_table_header gave for each column
    clicked,      \* listing view: the column whose sort link led to the request
    referrer,     \* listing view: the order parameter of the page that link was on
    entity,       \* detail view: the entity whose detail view class handles the request
    slug,         \* detail view: the identifier in the URL
    lookups,      \* detail view: the lookups get_object has made
    object,       \* detail view: what get_object() returned
    title,        \* detail view: context["title"]
    title_suffix, \* detail view: context["title_suffix"]
    app,          \* route composer: the application whose urls module is being loaded
    modules,      \* route composer: which of the app's modules exist
    position,     \* route composer: how many of the app's models are done
    classes,      \* route composer: which classes the app defines for the last model
    bundle,       \* route composer: what produce_paths_for_model last returned
    urlpatterns   \* route composer: the names registered so far

entryVars == <<method, data, cleaned>>
indexVars ==
    <<GET, followed, filters, ordering, object_list, constructed, is_filtered,
      headers, clicked, referrer>>
detailVars == <<entity, slug, lookups, object, title, title_suffix>>
routeVars == <<app, modules, position, classes, bundle, urlpatterns>>
vars == <<store, view, pc, response, entryVars, indexVars, detailVars, routeVars>>

NoParams == [q |-> Absent, order |-> Absent]
Unset == [t |-> "unset", s |-> <<>>, kids |-> <<>>]
NoUrl == [name |-> "", query |-> <<>>]
NoResponse == [status |-> "none", location |-> NoUrl, error |-> ""]
Redirect(url) == [status |-> "redirect", location |-> url, error |-> ""]
Page == [status |-> "page", location |-> NoUrl, error |-> ""]
Raised(e) == [status |-> "error", location |-> NoUrl, error |-> e]

EntryBlank ==
    /\ method = ""
    /\ data = Absent
    /\ cleaned = [valid |-> FALSE, q |-> Unset]

NoHeaders == <<>>

IndexBlank ==
    /\ GET = NoParams
    /\ followed = FALSE
    /\ filters = Unset
    /\ ordering = Absent
    /\ object_list = {}
    /\ constructed = <<>>
    /\ is_filtered = FALSE
    /\ headers = NoHeaders
    /\ clicked = Absent
    /\ referrer = Absent

NoObject == [pk |-> 0, mitre_id |-> "", name |-> "", deprecated |-> FALSE, revoked |-> FALSE]

DetailBlank ==
    /\ entity = ""
    /\ slug = ""
    /\ lookups = <<>>
    /\ object = NoObject
    /\ title = <<>>
    /\ title_suffix = <<>>

NoModules == [views |-> FALSE, filters |-> FALSE]
NoClasses == [IndexView |-> FALSE, FilterSet |-> FALSE, DetailView |-> FALSE]
NoBundle == [raised |-> FALSE, error |-> "", paths |-> <<>>]

RoutesBlank ==
    /\ app = ""
    /\ modules = NoModules
    /\ position = 0
    /\ classes = NoClasses
    /\ bundle = NoBundle
    /\ urlpatterns = <<>>

Idle ==
    /\ view = "none"
    /\ pc = "idle"
    /\ response = NoResponse
    /\ EntryBlank
    /\ IndexBlank
    /\ DetailBlank

ResetEntry ==
    /\ method' = ""
    /\ data' = Absent
    /\ cleaned' = [valid |-> FALSE, q |-> Unset]

ResetIndex ==
    /\ GET' = NoParams
    /\ followed' = FALSE
    /\ filters' = Unset
    /\ ordering' = Absent
    /\ object_list' = {}
    /\ constructed' = <<>>
    /\ is_filtered' = FALSE
    /\ headers' = NoHeaders
    /\ clicked' = Absent
    /\ referrer' = Absent

ResetDetail ==
    /\ entity' = ""
    /\ slug' = ""
    /\ lookups' = <<>>
    /\ object' = NoObject
    /\ title' = <<>>
    /\ title_suffix' = <<>>

\* a new request arrives when none is being handled
Ready == pc = "idle"

\* the response is sent, and the request's objects are discarded
Respond ==
    /\ pc = "done"
    /\ view' = "none"
    /\ pc' = "idle"
    /\ response' = NoResponse
    /\ ResetEntry
    /\ ResetIndex
    /\ ResetDetail
    /\ UNCHANGED <<store, routeVars>>

(***************************************************************************)
(* FilterView: the Filter-Entry view.                                      *)
(***************************************************************************)
\* form_valid with the token put in the URL as it is, not urlencoded
FilterView_form_valid_raw(q) ==
    Redirect([name |-> "index", query |-> W_q \o <<"=">> \o Dumps(q)])

\* form_valid: the redirect to the index endpoint
FilterView_form_valid(q) ==
    LET querystring == UrlEncodeQ(Dumps(q))
        url == [name |-> "index", query |-> <<>>]
    IN  Redirect(IF querystring # <<>> THEN [url EXCEPT !.query = querystring] ELSE url)

\* get_context_data: validates the form and builds the filterset from
\* cleaned_data["q"]; a form whose q failed validation has no such key
FilterView_get_context_data(form) ==
    IF form.valid THEN Page ELSE Raised("KeyError")

\* ProcessFormView.get renders the form; post (and put) validates and redirects
FilterView_dispatch(m, form) ==
    IF m \in {"POST", "PUT"}
    THEN IF form.valid THEN FilterView_form_valid(form.q)
         ELSE FilterView_get_context_data(form)
    ELSE FilterView_get_context_data(form)

\* get_form_kwargs: the form is bound to request.POST for POST and PUT and to
\* request.GET for GET
FilterEntry(m, d) ==
    /\ Ready
    /\ view' = "filter"
    /\ method' = m
    /\ data' = d
    /\ cleaned' = FilterFormClean(d)
    /\ response' = FilterView_dispatch(m, FilterFormClean(d))
    /\ pc' = "done"
    /\ ResetIndex
    /\ UNCHANGED <<store, detailVars, routeVars>>

(***************************************************************************)
(* BaseIndexView: the listing view.                                        *)
(***************************************************************************)
fields == {W_mitre_id, W_name, W_short_description, W_collection}

\* get_filters that takes a form with errors for a form without criteria
get_filters_lenient(params) ==
    LET form == FilterFormClean(params.q)
    IN  [raised |-> FALSE,
         value |-> IF form.valid /\ Truthy(form.q) THEN form.q ELSE JList(<<>>)]

\* get_filters: [raised, value]
get_filters(params) ==
    LET form == FilterFormClean(params.q)
    IN  IF ~form.valid THEN [raised |-> TRUE, value |-> Unset]
        ELSE [raised |-> FALSE,
              value |-> IF Truthy(form.q) THEN form.q ELSE JList(<<>>)]

\* str.strip("-"): the text without its leading and trailing "-" characters
StripDashes(text) ==
    LET keep == {k \in 1..Len(text) : text[k] # "-"}
    IN  IF keep = {} THEN <<>>
        ELSE SubSeq(text, CHOOSE k \in keep : \A m \in keep : k <= m,
                          CHOOSE k \in keep : \A m \in keep : m <= k)

\* get_ordering: Absent stands for None
get_ordering(params) ==
    LET field_name == params.order
    IN  IF field_name.present /\ field_name.value # <<>>
           /\ StripDashes(field_name.value) \notin fields
        THEN Absent
        ELSE field_name

\* the baseline without the revoked flag
Baseline_deprecated_only(queryset) == {r \in queryset : ~r.deprecated}

\* get_queryset's baseline: queryset.filter(deprecated=False, revoked=False)
Baseline(queryset) == {r \in queryset : ~r.deprecated /\ ~r.revoked}

\* the filtering backend's filter_queryset: some narrowing of the collection,
\* or its error for criteria it does not accept
FiltersetOutcomes(queryset) ==
    {[raised |-> FALSE, rows |-> rows] : rows \in SUBSET queryset}
        \cup {[raised |-> TRUE, rows |-> {}]}

\* filter_queryset without the early return for empty criteria
filter_queryset_always(queryset, params) ==
    LET filter_data == get_filters(params)
    IN  IF filter_data.raised THEN {[raised |-> TRUE, rows |-> {}, built |-> FALSE]}
        ELSE {[raised |-> o.raised, rows |-> o.rows, built |-> TRUE] :
                o \in FiltersetOutcomes(queryset)}

\* filter_queryset: the outcomes [raised, rows, built]; built tells whether a
\* filterset object was constructed
filter_queryset(queryset, params) ==
    LET filter_data == get_filters(params)
    IN  IF filter_data.raised THEN {[raised |-> TRUE, rows |-> {}, built |-> FALSE]}
        ELSE IF ~Truthy(filter_data.value)
        THEN {[raised |-> FALSE, rows |-> queryset, built |-> FALSE]}
        ELSE {[raised |-> o.raised, rows |-> o.rows, built |-> TRUE] :
                o \in FiltersetOutcomes(queryset)}

\* get_queryset: the outcomes of the whole method
get_queryset(all, params) == filter_queryset(Baseline(all), params)

\* the query string of a listing request made with the given q and order
ListingQuery(q, order) ==
    JoinWith((IF q.present THEN <<W_q \o <<"=">> \o QuotePlus(q.value)>> ELSE <<>>)
               \o (IF order.present
                   THEN <<W_order \o <<"=">> \o QuotePlus(order.value)>> ELSE <<>>),
             <<"&">>)

\* request.GET of a request with the query string qs
ParseQuery(qs) == [q |-> QueryGet(qs, W_q), order |-> QueryGet(qs, W_order)]

BeginIndex(qs, follows) ==
    /\ view' = "index"
    /\ pc' = "queryset"
    /\ response' = NoResponse
    /\ GET' = ParseQuery(qs)
    /\ followed' = follows
    /\ filters' = Unset
    /\ ordering' = Absent
    /\ object_list' = {}
    /\ constructed' = <<>>
    /\ is_filtered' = FALSE
    /\ headers' = NoHeaders
    /\ UNCHANGED <<store, detailVars, routeVars>>

\* a listing request arrives
ListingRequest(q, order) ==
    /\ Ready
    /\ BeginIndex(ListingQuery(q, order), FALSE)
    /\ clicked' = Absent
    /\ referrer' = Absent
    /\ ResetEntry

\* the client follows the Filter-Entry view's redirect
FollowRedirect ==
    /\ pc = "done"
    /\ view = "filter"
    /\ response.status = "redirect"
    /\ BeginIndex(response.location.query, TRUE)
    /\ clicked' = Absent
    /\ referrer' = Absent
    /\ UNCHANGED entryVars

\* ListView.get, first part: self.object_list = self.get_queryset()
IndexGetQueryset ==
    /\ view = "index"
    /\ pc = "queryset"
    /\ ordering' = get_ordering(GET)
    /\ filters' = get_filters(GET).value
    /\ \E o \in get_queryset(store, GET) :
        /\ object_list' = o.rows
        /\ constructed' = IF o.built THEN Append(constructed, "queryset") ELSE constructed
        /\ IF o.raised
           THEN /\ response' = Raised(IF o.built THEN "InvalidFilterSet" ELSE "Exception")
                /\ pc' = "done"
           ELSE /\ response' = response
                /\ pc' = "form"
    /\ UNCHANGED <<detailVars, routeVars, store, view, entryVars, GET, followed, is_filtered,
                   headers, clicked, referrer>>

\* get_filterset: filterset_class(self.get_filters())
get_filterset(params) == get_filters(params)

\* FormMixin.get_context_data: the form, whose kwargs hold get_filterset()
IndexGetForm ==
    /\ view = "index"
    /\ pc = "form"
    /\ filters' = get_filterset(GET).value
    /\ constructed' = Append(constructed, "form")
    /\ pc' = "context"
    /\ UNCHANGED <<detailVars, routeVars, store, view, response, entryVars, GET, followed, ordering,
                   object_list, is_filtered, headers, clicked, referrer>>

\* "-" and the field name: the value that orders by the field, descending
Descending(field_name) == <<"-">> \o field_name

\* ordered_table_header that leaves the descending order for the ascending one
ordered_table_header_two_state(params, field_name) ==
    LET current_value == params.order
    IN  IF current_value = Given(field_name)
        THEN [sort_order |-> "asc", next_sort_order_value |-> Descending(field_name)]
        ELSE IF current_value = Given(Descending(field_name))
        THEN [sort_order |-> "desc", next_sort_order_value |-> field_name]
        ELSE [sort_order |-> "", next_sort_order_value |-> field_name]

\* ordered_table_header: what the tag adds to the context of one column header
ordered_table_header(params, field_name) ==
    LET current_value == params.order
    IN  IF current_value = Given(field_name)
        THEN [sort_order |-> "asc", next_sort_order_value |-> Descending(field_name)]
        ELSE IF current_value = Given(Descending(field_name))
        THEN [sort_order |-> "desc", next_sort_order_value |-> <<>>]
        ELSE [sort_order |-> "", next_sort_order_value |-> field_name]

\* the column headers of the listing page: one for each declared field
RenderHeaders(params) == [f \in fields |-> ordered_table_header(params, f)]

\* get_context_data: is_filtered, and the filterset for the two schemas; the
\* page is then rendered, column headers included
IndexGetContextData ==
    /\ view = "index"
    /\ pc = "context"
    /\ is_filtered' = Truthy(get_filters(GET).value)
    /\ filters' = get_filterset(GET).value
    /\ constructed' = Append(constructed, "context")
    /\ headers' = RenderHeaders(GET)
    /\ response' = Page
    /\ pc' = "done"
    /\ UNCHANGED <<detailVars, routeVars, store, view, entryVars, GET, followed, ordering,
                   object_list, clicked, referrer>>

\* the query string of a column header's sort link: the order parameter with
\* the header's next value, and the page's criteria when the link keeps them
SortLink(params, header, keeps) ==
    ListingQuery(IF keeps THEN params.q ELSE Absent, Given(header.next_sort_order_value))

\* the client follows the sort link of the column of field f
FollowSortLink(f, keeps) ==
    /\ pc = "done"
    /\ view = "index"
    /\ response = Page
    /\ BeginIndex(SortLink(GET, headers[f], keeps), FALSE)
    /\ clicked' = Given(f)
    /\ referrer' = GET.order
    /\ UNCHANGED entryVars

IndexSteps == IndexGetQueryset \/ IndexGetForm \/ IndexGetContextData

(***************************************************************************)
(* BaseDetailView and the detail views of the attack application.          *)
(***************************************************************************)
\* the detail view classes of attack/views.py, by entity
DetailEntities ==
    {"Technique", "Software", "Group", "DataSource", "Tactic", "Matrix",
     "Mitigation", "Campaign"}

\* SingleObjectMixin.get_object on a queryset, by the view's slug field
\* (mitre_id): the record with the slug when there is exactly one, Http404
\* when there is none, and the model's MultipleObjectsReturned when there are
\* several
Lookup(queryset, id) ==
    LET found == {r \in queryset : r.mitre_id = id}
    IN  IF found = {} THEN [status |-> "Http404", obj |-> NoObject]
        ELSE IF Cardinality(found) = 1
        THEN [status |-> "found", obj |-> CHOOSE r \in found : TRUE]
        ELSE [status |-> "MultipleObjectsReturned", obj |-> NoObject]

\* the retry narrowed by the revoked flag alone
Narrowed_revoked_only(queryset) == {r \in queryset : ~r.revoked}

\* get_object's retry: queryset.filter(deprecated=False, revoked=False)
Narrowed(queryset) == {r \in queryset : ~r.deprecated /\ ~r.revoked}

\* get_title of the entity's detail view class
get_title(e, obj) ==
    IF e = "DataSource"
    THEN <<obj.name>> \o (IF obj.revoked THEN <<" (revoked)">> ELSE <<>>)
    ELSE <<obj.name>>

get_title_suffix(obj) == IF obj.revoked THEN <<"[revoked]">> ELSE <<>>

\* the title the page shows: the context's title, then its title_suffix
RenderedTitle == title \o title_suffix

\* a detail request arrives
DetailRequest(e, id) ==
    /\ Ready
    /\ view' = "detail"
    /\ pc' = "get_object"
    /\ entity' = e
    /\ slug' = id
    /\ UNCHANGED <<store, response, entryVars, indexVars, lookups, object, title,
                   title_suffix, routeVars>>

\* get_object, the try block: the lookup without any restriction
DetailGetObject ==
    /\ view = "detail"
    /\ pc = "get_object"
    /\ lookups' = Append(lookups, "all")
    /\ LET r == Lookup(store, slug)
       IN  /\ object' = r.obj
           /\ pc' = CASE r.status = "found" -> "get_context_data"
                      [] r.status = "MultipleObjectsReturned" -> "except"
                      [] OTHER -> "done"
           /\ response' = IF r.status = "Http404" THEN Raised("Http404") ELSE response
    /\ UNCHANGED <<store, view, entryVars, indexVars, entity, slug, title, title_suffix,
                   routeVars>>

\* get_object, the except block: the lookup among the visible records
DetailRetry ==
    /\ view = "detail"
    /\ pc = "except"
    /\ lookups' = Append(lookups, "visible")
    /\ LET r == Lookup(Narrowed(store), slug)
       IN  /\ object' = r.obj
           /\ pc' = IF r.status = "found" THEN "get_context_data" ELSE "done"
           /\ response' = IF r.status = "found" THEN response ELSE Raised(r.status)
    /\ UNCHANGED <<store, view, entryVars, indexVars, entity, slug, title, title_suffix,
                   routeVars>>

\* get_context_data: the title and its suffix
DetailGetContextData ==
    /\ view = "detail"
    /\ pc = "get_context_data"
    /\ title' = get_title(entity, object)
    /\ title_suffix' = get_title_suffix(object)
    /\ response' = Page
    /\ pc' = "done"
    /\ UNCHANGED <<store, view, entryVars, indexVars, entity, slug, lookups, object,
                   routeVars>>

DetailSteps == DetailGetObject \/ DetailRetry \/ DetailGetContextData

(***************************************************************************)
(* The route composer: produce_paths_for_model, and the loop of an         *)
(* application's urls module that calls it for each viewable model.        *)
(***************************************************************************)
Apps == {"mitreattack", "mitrembc"}

\* VIEWABLE_MODELS_AND_PK_PATTERNS of the two urls modules
ViewableModels(a) ==
    IF a = "mitreattack"
    THEN <<"campaign", "datasource", "group", "matrix", "mitigation", "software",
           "tactic", "technique">>
    ELSE <<"software", "tactic", "technique">>

\* model_url_name(model, name, namespaced=False): <entity>_<action>
model_url_name(model, name) == <<model, "_", name>>

\* _path: the endpoint, named by model_url_name
path(route, v, name, model) ==
    [route |-> route, view |-> v, name |-> model_url_name(model, name)]

\* produce_paths_for_model that needs the filters module as it needs views
produce_paths_for_model_strict(model, mods, cls) ==
    IF ~mods.views \/ ~mods.filters
    THEN [raised |-> TRUE, error |-> "AssertionError", paths |-> <<>>]
    ELSE IF ~cls.DetailView
    THEN [raised |-> TRUE, error |-> "AttributeError", paths |-> <<>>]
    ELSE [raised |-> FALSE, error |-> "",
          paths |-> <<path("^$", <<IF cls.IndexView THEN <<model, "IndexView">>
                                    ELSE <<"BaseIndexView">>,
                                   IF cls.FilterSet THEN <<model, "FilterSet">>
                                    ELSE <<"filterset_factory", model>>>>,
                           "index", model),
                      path("^detail/<pk_pattern>/$", <<<<model, "DetailView">>>>,
                           "detail", model),
                      path("filter/", <<<<"FilterView">>,
                                        IF cls.FilterSet THEN <<model, "FilterSet">>
                                         ELSE <<"filterset_factory", model>>>>,
                           "filter", model)>>]

\* produce_paths_for_model for a model of an application with the modules
\* mods, whose modules define the classes cls for the model
produce_paths_for_model(model, mods, cls) ==
    IF ~mods.views THEN [raised |-> TRUE, error |-> "AssertionError", paths |-> <<>>]
    ELSE LET index_view_class == IF cls.IndexView THEN <<model, "IndexView">>
                                 ELSE <<"BaseIndexView">>
             filterset_class == IF mods.filters /\ cls.FilterSet
                                THEN <<model, "FilterSet">>
                                ELSE <<"filterset_factory", model>>
         IN  IF ~cls.DetailView
             THEN [raised |-> TRUE, error |-> "AttributeError", paths |-> <<>>]
             ELSE [raised |-> FALSE, error |-> "",
                   paths |-> <<path("^$", <<index_view_class, filterset_class>>,
                                    "index", model),
                               path("^detail/<pk_pattern>/$", <<<<model, "DetailView">>>>,
                                    "detail", model),
                               path("filter/", <<<<"FilterView">>, filterset_class>>,
                                    "filter", model)>>]

\* the urls module of an application starts loading
LoadUrls(a, mods) ==
    /\ Ready
    /\ view = "none"
    /\ app = ""
    /\ view' = "urls"
    /\ pc' = "loop"
    /\ app' = a
    /\ modules' = mods
    /\ UNCHANGED <<store, response, entryVars, indexVars, detailVars, position, classes,
                   bundle, urlpatterns>>

\* one pass of the loop: the next model's endpoints are composed and
\* included; an error ends the loading of the module
ComposeNext(cls) ==
    /\ view = "urls"
    /\ pc = "loop"
    /\ position < Len(ViewableModels(app))
    /\ LET model == ViewableModels(app)[position + 1]
           r == produce_paths_for_model(model, modules, cls)
       IN  /\ bundle' = r
           /\ urlpatterns' = urlpatterns \o [k \in 1..Len(r.paths) |-> r.paths[k].name]
           /\ pc' = IF r.raised THEN "failed" ELSE "loop"
    /\ classes' = cls
    /\ position' = position + 1
    /\ UNCHANGED <<store, view, response, entryVars, indexVars, detailVars, app, modules>>

\* the loop is over: the module is loaded
UrlsLoaded ==
    /\ view = "urls"
    /\ pc = "loop"
    /\ position = Len(ViewableModels(app))
    /\ pc' = "loaded"
    /\ UNCHANGED <<store, view, response, entryVars, indexVars, detailVars, routeVars>>

(***************************************************************************)
(* Properties.                                                             *)
(***************************************************************************)
EmptyList == JList(<<>>)

\* the listing request that follows a redirect has run get_filters
FollowedDecoded == view = "index" /\ followed /\ pc # "queryset"

\* C1, as stated: every criteria value c the Filter-Entry view accepted and
\* redirected with decodes, in get_filters of the request that follows the
\* redirect, to a value equal to c.
C1_RoundTripEveryValue ==
    (FollowedDecoded /\ data.present /\ data.value # <<>>) => filters = cleaned.q

\* C1, amended: a non-empty (truthy) criteria value c decodes to a value equal
\* to c, and an empty one (null, false, 0, "", {} or []) decodes to the empty
\* list.
C1_RoundTripNonEmpty ==
    FollowedDecoded => filters = (IF Truthy(cleaned.q) THEN cleaned.q ELSE EmptyList)

\* C1: query data whose text holds "&", a character of the query string's own
\* syntax, came back as it was submitted
C1_Witness ==
    /\ FollowedDecoded
    /\ pc = "done"
    /\ response.status = "page"
    /\ cleaned.q \in QueryData
    /\ \E k \in 1..Len(cleaned.q.kids[2].kids[1].kids[2].kids[2].kids[1].s) :
          cleaned.q.kids[2].kids[1].kids[2].kids[2].kids[1].s[k] = "&"
    /\ filters = cleaned.q

\* C2: the redirect for an empty or absent criteria value carries no q
\* parameter at all, and a listing request without a q parameter decodes to
\* the empty criteria.
C2_EmptyCriteriaOmitParameter ==
    /\ (view = "filter" /\ response.status = "redirect" /\ ~Truthy(cleaned.q))
          => ~QueryGet(response.location.query, W_q).present
    /\ (view = "index" /\ pc # "queryset" /\ ~GET.q.present) => filters = EmptyList

\* d without one leading descending marker
StripLeadingMarker(d) == IF d # <<>> /\ Head(d) = "-" THEN Tail(d) ELSE d

\* the ordering get_ordering returned is one the queryset is ordered by
Applied(o) == o.present /\ o.value # <<>>

\* C3: get_ordering returns the order parameter d only when d without one
\* leading "-" is a declared field; for every other d no ordering is applied.
C3_OrderingOnlyByDeclaredField ==
    (view = "index" /\ pc # "queryset")
        => (Applied(ordering)
              => /\ ordering = GET.order
                 /\ StripLeadingMarker(GET.order.value) \in fields)

\* C4: whatever the stored collection, the criteria and the sort directive,
\* get_queryset returns no deprecated and no revoked record (and nothing that
\* is not stored).
C4_ListingHidesDeprecatedAndRevoked ==
    /\ object_list \subseteq store
    /\ \A r \in object_list : ~r.deprecated /\ ~r.revoked

\* C4: a listing narrowed by criteria, of a collection that holds a
\* deprecated and a revoked record, returned records
C4_Witness ==
    /\ view = "index"
    /\ pc = "done"
    /\ response.status = "page"
    /\ constructed[1] = "queryset"
    /\ object_list # {}
    /\ \E r \in store : r.deprecated
    /\ \E r \in store : r.revoked /\ ~r.deprecated

\* C6: the Filter-Entry view answers a submission by its criteria alone,
\* whatever the method: a redirect to the index endpoint with q when they
\* validate, the form shown again when they do not.
C6_GetAndPostAlike ==
    (view = "filter" /\ pc = "done")
        => IF cleaned.valid
           THEN /\ response.status = "redirect"
                /\ response.location.name = "index"
                /\ QueryGet(response.location.query, W_q).present
           ELSE response.status = "page"

\* the q parameter is there and is no JSON document
MalformedToken == GET.q.present /\ GET.q.value # <<>> /\ ~Loads(GET.q.value).ok

\* C7: a listing request whose q is present and malformed ends in an error:
\* get_filters raises in get_queryset, nothing is listed, no criteria are
\* decoded and no page is rendered.
C7_MalformedTokenIsAnError ==
    (view = "index" /\ pc # "queryset" /\ MalformedToken)
        => /\ pc = "done"
           /\ response = Raised("Exception")
           /\ filters = Unset
           /\ object_list = {}
           /\ constructed = <<>>

\* C7: such a request, of a collection with a visible record
C7_Witness ==
    /\ view = "index"
    /\ pc = "done"
    /\ GET.q = Given(<<"[", "1", ",", "]">>)
    /\ response.status = "error"
    /\ \E r \in store : ~r.deprecated /\ ~r.revoked

Built(step) == \E k \in 1..Len(constructed) : constructed[k] = step

\* C10, as stated: a listing request whose decoded criteria are empty
\* constructs no filterset at any step, and its is_filtered is false.
C10_NoFiltersetForEmptyCriteria ==
    (view = "index" /\ filters = EmptyList) => constructed = <<>> /\ ~is_filtered

\* C10, amended: get_queryset constructs a filterset exactly when the decoded
\* criteria are non-empty, and is_filtered is true exactly then; building the
\* form and building the context construct one filterset each, from the
\* decoded criteria, empty or not.
C10_QuerysetSkipsEmptyCriteria ==
    (view = "index" /\ pc # "queryset" /\ response.status # "error")
        => /\ Built("queryset") <=> Truthy(filters)
           /\ Built("form") <=> pc \in {"context", "done"}
           /\ Built("context") <=> pc = "done"
           /\ pc = "done" => (is_filtered <=> Truthy(filters))
           /\ is_filtered => pc = "done"

\* C10: a finished listing request with a q parameter that decoded to empty
\* criteria
C10_Witness ==
    /\ view = "index"
    /\ pc = "done"
    /\ response.status = "page"
    /\ GET.q = Given(<<"{", "}">>)
    /\ filters = EmptyList
    /\ constructed = <<"form", "context">>
    /\ ~is_filtered

\* the stored records with the identifier of the request, and the visible ones
Matching == {r \in store : r.mitre_id = slug}
VisibleMatching == {r \in Matching : ~r.deprecated /\ ~r.revoked}

\* C5: a lookup that finds exactly one record returns it, deprecated and
\* revoked ones too; one that finds none is a not-found and is not retried;
\* one that finds several is retried once among the visible records, and the
\* retry returns its one record or propagates its not-found or
\* multiple-found; no lookup follows the retry.
C5_LookupRetriesAtMostOnce ==
    /\ Len(lookups) <= 2
    /\ (view = "detail" /\ pc \in {"get_context_data", "done"})
          => CASE Cardinality(Matching) = 1 ->
                    /\ lookups = <<"all">>
                    /\ object \in Matching
                    /\ response.status # "error"
               [] Cardinality(Matching) = 0 ->
                    /\ lookups = <<"all">>
                    /\ response = Raised("Http404")
               [] OTHER ->
                    /\ lookups = <<"all", "visible">>
                    /\ CASE Cardinality(VisibleMatching) = 1 ->
                              object \in VisibleMatching /\ response.status # "error"
                         [] Cardinality(VisibleMatching) = 0 ->
                              response = Raised("Http404")
                         [] OTHER -> response = Raised("MultipleObjectsReturned")

\* C5: the identifier matched a visible and a deprecated record, and the page
\* of the visible one was rendered after the retry
C5_Witness ==
    /\ view = "detail"
    /\ pc = "done"
    /\ response.status = "page"
    /\ lookups = <<"all", "visible">>
    /\ object \in VisibleMatching
    /\ \E r \in Matching : r.deprecated /\ ~r.revoked

\* C8: produce_paths_for_model either raises (no views module, or no
\* <Entity>DetailView) and returns no endpoint, or returns the three endpoints
\* <entity>_index, <entity>_detail and <entity>_filter, pairwise distinct; a
\* missing filters module, <Entity>IndexView or <Entity>FilterSet is replaced
\* by the generic default.  An error ends the loading of the urls module.
C8_ThreeEndpointsOrConfigurationError ==
    (view = "urls" /\ position > 0)
        => LET model == ViewableModels(app)[position]
               filterset == IF modules.filters /\ classes.FilterSet
                            THEN <<model, "FilterSet">>
                            ELSE <<"filterset_factory", model>>
           IN  IF ~modules.views \/ ~classes.DetailView
               THEN /\ bundle.raised
                    /\ bundle.paths = <<>>
                    /\ pc = "failed"
                    /\ Len(urlpatterns) = 3 * (position - 1)
               ELSE /\ ~bundle.raised
                    /\ pc # "failed"
                    /\ [k \in 1..Len(bundle.paths) |-> bundle.paths[k].name]
                         = <<<<model, "_", "index">>, <<model, "_", "detail">>,
                             <<model, "_", "filter">>>>
                    /\ Cardinality({bundle.paths[k].name : k \in 1..Len(bundle.paths)}) = 3
                    /\ bundle.paths[1].view
                         = <<IF classes.IndexView THEN <<model, "IndexView">>
                             ELSE <<"BaseIndexView">>, filterset>>
                    /\ bundle.paths[2].view = <<<<model, "DetailView">>>>
                    /\ bundle.paths[3].view = <<<<"FilterView">>, filterset>>
                    /\ Len(urlpatterns) = 3 * position

\* C8: the urls module of an application without a filters module loaded, the
\* last model having no index view class of its own
C8_Witness ==
    /\ view = "urls"
    /\ pc = "loaded"
    /\ app = "mitreattack"
    /\ ~modules.filters
    /\ ~classes.IndexView
    /\ classes.FilterSet
    /\ Len(bundle.paths) = 3
    /\ Len(urlpatterns) = 24

\* C9: the title of a rendered detail page is the record's display name, with
\* the marker [revoked] after it when the record is revoked.
C9_TitleIsNameWithRevokedMarker ==
    (view = "detail" /\ pc = "done" /\ response.status = "page")
        => RenderedTitle
             = <<object.name>> \o (IF object.revoked THEN <<"[revoked]">> ELSE <<>>)

\* the listing page is rendered
PageShown == view = "index" /\ pc = "done" /\ response = Page

\* the order parameter a sort link of the column of f carries, by the order
\* parameter of the page the link is on
NextInCycle(current, f) ==
    IF current = Given(f) THEN Given(Descending(f))
    ELSE IF current = Given(Descending(f)) THEN Given(<<>>)
    ELSE Given(f)

\* C11: following the sort link of the column of a declared field f takes the
\* order parameter from f to -f, from -f to the empty value, and from any
\* other value (the empty one, none, another field) to f; a rendered header
\* reports asc exactly when order is f, desc exactly when order is -f, and
\* nothing otherwise; and get_ordering returns the order parameter of a
\* request made through a sort link as it is, never None in its place.
C11_SortLinkCycle ==
    /\ \A f \in fields :
          (view = "index" /\ clicked = Given(f)) =>
              /\ GET.order = NextInCycle(referrer, f)
              /\ pc # "queryset" => ordering = GET.order
    /\ PageShown =>
          \A f \in fields :
              /\ headers[f].sort_order = "asc" <=> GET.order = Given(f)
              /\ headers[f].sort_order = "desc" <=> GET.order = Given(Descending(f))
              /\ headers[f].sort_order \in {"asc", "desc", ""}

\* the link of the name column was followed from the page ordered by -name:
\* the page now shown has the empty order parameter, which get_ordering
\* returned, and its name header leads to the ascending order again
C11_Witness ==
    /\ PageShown
    /\ clicked = Given(W_name)
    /\ referrer = Given(Descending(W_name))
    /\ GET.order = Given(<<>>)
    /\ ordering = Given(<<>>)
    /\ headers[W_name] = [sort_order |-> "", next_sort_order_value |-> W_name]

(***************************************************************************)
(* Specifications.                                                         *)
(***************************************************************************)
Methods == {"GET", "POST", "PUT"}

Submissions == {Absent, Given(<<>>)} \cup {Given(Dumps(c)) : c \in Criteria}
                   \cup {Given(t) : t \in Malformed}

\* the collection the Filter-Entry specification browses
SampleStore ==
    {[pk |-> 1, mitre_id |-> "T1566", name |-> NameOf("T1566"),
      deprecated |-> FALSE, revoked |-> FALSE],
     [pk |-> 2, mitre_id |-> "T1566", name |-> NameOf("T1566"),
      deprecated |-> FALSE, revoked |-> TRUE]}

EntryInit == Idle /\ RoutesBlank /\ store = SampleStore

EntryNext ==
    \/ \E m \in Methods, d \in Submissions : FilterEntry(m, d)
    \/ FollowRedirect
    \/ IndexSteps
    \/ Respond

\* a filter submission, and the listing request its redirect leads to
SpecEntry == EntryInit /\ [][EntryNext]_vars

\* one query data value, for the field name and the text w
NameContains(w) ==
    JList(<<JStr(W_and),
            JList(<<JList(<<JStr(W_name),
                            JObj(<<JPair(W_lookup, JStr(W_icontains)),
                                   JPair(W_value, JStr(w))>>)>>)>>)>>)

ListingTokens ==
    {Absent, Given(<<>>), Given(<<"[", "]">>), Given(<<"{", "}">>),
     Given(<<"n", "u", "l", "l">>), Given(<<"{">>), Given(<<"[", "1", ",", "]">>),
     Given(Dumps(NameContains(<<"a">>))), Given(Dumps(NameContains(<<"&", "=">>)))}

Orders ==
    {Absent, Given(<<>>), Given(W_name), Given(<<"-">> \o W_name),
     Given(<<"-", "-">> \o W_name), Given(W_name \o <<"-">>), Given(<<"-">>),
     Given(W_bogus), Given(<<"-">> \o W_bogus), Given(W_mitre_id),
     Given(<<"-">> \o W_short_description), Given(W_collection)}

ListingInit == Idle /\ RoutesBlank /\ store \in Stores({"T1566"})

ListingNext ==
    \/ \E q \in ListingTokens, o \in Orders : ListingRequest(q, o)
    \/ IndexSteps
    \/ Respond

\* listing requests over every stored collection
SpecListing == ListingInit /\ [][ListingNext]_vars

DetailSlugs == {"T1566", "T9999"}

DetailInit == Idle /\ RoutesBlank /\ store \in Stores(MitreIds)

DetailNext ==
    \/ \E e \in DetailEntities, id \in DetailSlugs : DetailRequest(e, id)
    \/ DetailSteps
    \/ Respond

\* detail requests over every stored collection
SpecDetail == DetailInit /\ [][DetailNext]_vars

RoutesInit == Idle /\ RoutesBlank /\ store = {}

RoutesNext ==
    \/ \E a \in Apps, mods \in [views : BOOLEAN, filters : BOOLEAN] : LoadUrls(a, mods)
    \/ \E cls \in [IndexView : BOOLEAN, FilterSet : BOOLEAN, DetailView : BOOLEAN] :
          ComposeNext(cls)
    \/ UrlsLoaded

\* the loading of an application's urls module
SpecRoutes == RoutesInit /\ [][RoutesNext]_vars

\* the criteria of the pages whose sort links are followed
HeaderTokens == {Absent, Given(<<"[", "]">>), Given(Dumps(NameContains(<<"a">>)))}

HeaderInit == Idle /\ RoutesBlank /\ store = SampleStore

HeaderNext ==
    \/ \E q \in HeaderTokens, o \in Orders : ListingRequest(q, o)
    \/ IndexSteps
    \/ \E f \in fields, keeps \in BOOLEAN : FollowSortLink(f, keeps)
    \/ Respond

\* listing requests, and the requests made through the sort links of the pages
SpecHeader == HeaderInit /\ [][HeaderNext]_vars

====
